---- MODULE Spec2Model ----
(***************************************************************************)
(* catboard: the content-extraction pipeline (src/src/file.rs,             *)
(* src/src/ocr.rs) as a state machine.  One call of read_file_contents is  *)
(* followed step by step: the existence check, the dispatch on the path's  *)
(* extension, and the reader the dispatch selects (PDF extractor, OCR      *)
(* capability, binary-text reader).                                        *)
(*                                                                         *)
(* Strings are sequences of one-character strings.  File contents are      *)
(* kept sparsely: a length, the offsets that hold a null byte and the      *)
(* offsets that hold a byte that is not valid UTF-8; every other byte is   *)
(* an ordinary ASCII character.  Files are regular files: a read of n      *)
(* bytes returns min(n, length) bytes.                                     *)
(***************************************************************************)
EXTENDS Integers, Sequences, FiniteSets, TLC

VARIABLES
    path,         \* the path handed to read_file_contents (characters)
    input,        \* how the path was built: [dir, stem, base, caps]
    exists,       \* whether the path exists on disk
    macos,        \* the build: cfg(target_os = "macos")
    adjacent,     \* a catboard-ocr file exists beside the running executable
    which,        \* `which catboard-ocr`: "miss", "stale" or "hit"
    file,         \* the bytes on disk, once something opened the path
    pc,           \* the position inside read_file_contents
    class,        \* the branch the dispatch took: "Pdf", "Image", "Text"
    page_count,   \* extract_pdf_text: page_count
    page_num,     \* extract_pdf_text: the loop variable
    all_text,     \* extract_pdf_text: all_text
    pages,        \* the page texts extracted so far, in order
    helper_path,  \* SystemOcrEngine.helper_path of the engine in use
    helper_out,   \* what the helper subprocess did, once it ran
    ret,          \* the dispatched reader's result
    result,       \* what read_file_contents (or read_stdin) returned
    log,          \* the external operations performed, in order
    handles,      \* read_text_file: the file handles open now
    files,        \* run: args.files
    idx,          \* run: how many of args.files the loop has been through
    contents,     \* run: contents
    returned,     \* run: what each read returned, in the order of the returns
    clipboard,    \* the text on the system clipboard
    run_pc,       \* the position inside run
    run_result    \* what run returned

vars == <<path, input, exists, macos, adjacent, which, file, pc, class,
          page_count, page_num, all_text, pages, helper_path, helper_out,
          ret, result, log, handles, files, idx, contents, returned,
          clipboard, run_pc, run_result>>

runVars == <<files, idx, contents, returned, clipboard, run_pc, run_result>>
envVars == <<path, input, exists, macos, adjacent, which>>
pdfVars == <<page_count, page_num, all_text, pages>>

(***************************************************************************)
(* Bounds of the model.                                                    *)
(***************************************************************************)
MaxPages == 3
MaxMarks == 1
MaxFiles == 2

(***************************************************************************)
(* Characters and strings.                                                 *)
(***************************************************************************)
Lowers == <<"a","b","c","d","e","f","g","h","i","j","k","l","m",
            "n","o","p","q","r","s","t","u","v","w","x","y","z">>
Uppers == <<"A","B","C","D","E","F","G","H","I","J","K","L","M",
            "N","O","P","Q","R","S","T","U","V","W","X","Y","Z">>

to_ascii_lowercase(c) ==
    IF \E i \in DOMAIN Uppers : Uppers[i] = c
    THEN Lowers[CHOOSE i \in DOMAIN Uppers : Uppers[i] = c]
    ELSE c

to_ascii_uppercase(c) ==
    IF \E i \in DOMAIN Lowers : Lowers[i] = c
    THEN Uppers[CHOOSE i \in DOMAIN Lowers : Lowers[i] = c]
    ELSE c

\* str::to_lowercase, on the characters the model uses
to_lowercase(s) == [i \in DOMAIN s |-> to_ascii_lowercase(s[i])]

\* str::eq_ignore_ascii_case
eq_ignore_ascii_case(a, b) ==
    /\ Len(a) = Len(b)
    /\ \A i \in DOMAIN a : to_ascii_lowercase(a[i]) = to_ascii_lowercase(b[i])

\* char::is_whitespace, on the characters the model uses
is_whitespace(c) == c \in {" ", "\n", "\t"}

RECURSIVE trim_start(_)
trim_start(s) ==
    IF s # <<>> /\ is_whitespace(Head(s)) THEN trim_start(Tail(s)) ELSE s

RECURSIVE trim_end(_)
trim_end(s) ==
    IF s # <<>> /\ is_whitespace(s[Len(s)])
    THEN trim_end(SubSeq(s, 1, Len(s) - 1))
    ELSE s

\* str::trim
trim(s) == trim_end(trim_start(s))

\* String::from_utf8_lossy: a byte that is not UTF-8 becomes U+FFFD
from_utf8_lossy(bytes) ==
    [i \in DOMAIN bytes |-> IF bytes[i] = "xFF" THEN "uFFFD" ELSE bytes[i]]

None == [some |-> FALSE, val |-> <<>>]
Some(v) == [some |-> TRUE, val |-> v]

(***************************************************************************)
(* Paths.                                                                  *)
(***************************************************************************)
\* Path::file_name: what follows the last separator (of a path that does
\* not end in one)
file_name(p) ==
    LET seps == {i \in DOMAIN p : p[i] = "/"}
    IN  IF seps = {} THEN p
        ELSE SubSeq(p, (CHOOSE i \in seps : \A j \in seps : j <= i) + 1, Len(p))

\* Path::extension: what follows the last dot of the file name; none when
\* the file name has no dot or only a leading one
extension(p) ==
    LET f    == file_name(p)
        dots == {i \in DOMAIN f : f[i] = "."}
        last == CHOOSE i \in dots : \A j \in dots : j <= i
    IN  IF dots = {} \/ last = 1 THEN None
        ELSE Some(SubSeq(f, last + 1, Len(f)))

(***************************************************************************)
(* Classification by extension.                                            *)
(***************************************************************************)
IMAGE_EXTENSIONS ==
    { <<"p","n","g">>, <<"j","p","g">>, <<"j","p","e","g">>,
      <<"t","i","f","f">>, <<"t","i","f">>, <<"g","i","f">>,
      <<"b","m","p">>, <<"w","e","b","p">>, <<"h","e","i","c">>,
      <<"h","e","i","f">> }

is_pdf_extension(ext) ==
    IF ext.some THEN eq_ignore_ascii_case(ext.val, <<"p","d","f">>) ELSE FALSE

\* is_image_file without the to_lowercase
is_image_file_case_sensitive(p) ==
    LET ext == extension(p)
    IN  IF ext.some THEN ext.val \in IMAGE_EXTENSIONS ELSE FALSE

is_image_file(p) ==
    LET ext == extension(p)
    IN  IF ext.some THEN to_lowercase(ext.val) \in IMAGE_EXTENSIONS ELSE FALSE


\* the dispatch without its image branch
classify_without_images(p) ==
    IF is_pdf_extension(extension(p)) THEN "Pdf" ELSE "Text"

\* the branch read_file_contents takes for path p
classify(p) ==
    IF is_pdf_extension(extension(p)) THEN "Pdf"
    ELSE IF is_image_file(p) THEN "Image"
    ELSE "Text"

(***************************************************************************)
(* The inputs: a path is  dir stem [ "." extension ]  with some letters of *)
(* the extension in upper case.                                            *)
(***************************************************************************)
ExtChars ==
    [ pdf  |-> <<"p","d","f">>,     png  |-> <<"p","n","g">>,
      jpg  |-> <<"j","p","g">>,     jpeg |-> <<"j","p","e","g">>,
      tiff |-> <<"t","i","f","f">>, tif  |-> <<"t","i","f">>,
      gif  |-> <<"g","i","f">>,     bmp  |-> <<"b","m","p">>,
      webp |-> <<"w","e","b","p">>, heic |-> <<"h","e","i","c">>,
      heif |-> <<"h","e","i","f">>, txt  |-> <<"t","x","t">>,
      rs   |-> <<"r","s">>,         pdfx |-> <<"p","d","f","x">>,
      pd   |-> <<"p","d">>,         jpe  |-> <<"j","p","e">>,
      empty |-> <<>> ]

Bases == DOMAIN ExtChars \cup {"none"}

Cased(chars, caps) ==
    [i \in DOMAIN chars |-> IF i \in caps THEN to_ascii_uppercase(chars[i])
                            ELSE chars[i]]

BuildPath(in) ==
    in.dir \o in.stem \o
    (IF in.base = "none" THEN <<>>
     ELSE <<".">> \o Cased(ExtChars[in.base], in.caps))

CapsOf(base) == IF base = "none" THEN {{}} ELSE SUBSET DOMAIN ExtChars[base]

\* every spelling: with and without a directory whose name has a dot, a
\* plain stem, a dot-file (empty stem) and a stem with a dot of its own
AllInputs ==
    { in \in [dir : {<<>>, <<"d",".","p","n","g","/">>},
              stem : {<<"a">>, <<>>, <<"a",".","b">>},
              base : Bases, caps : SUBSET (1..4)] :
        /\ in.caps \in CapsOf(in.base)
        /\ ~(in.stem = <<>> /\ in.base = "none") }

\* the inputs of the pipeline: one spelling or two of each kind
MainInputs ==
    { in \in AllInputs :
        /\ in.dir = <<>>
        /\ \/ /\ in.stem = <<"a">>
              /\ in.base \in {"txt", "none", "pdf", "png", "jpeg"}
              /\ in.caps \in {{}, {1, 2, 3}}
              /\ in.base = "txt" => in.caps = {}
           \/ in.stem = <<>> /\ in.base = "pdf" /\ in.caps = {} }

(***************************************************************************)
(* File contents.                                                          *)
(***************************************************************************)
BINARY_CHECK_SIZE == 8192

Lens == {0, 5, 8192, 10000}
MarkOffsets == {3, 4000, 8191, 8192, 9000}

Files ==
    { f \in [len : Lens, nul : SUBSET MarkOffsets, bad : SUBSET MarkOffsets] :
        /\ \A o \in f.nul \cup f.bad : o < f.len
        /\ f.nul \cap f.bad = {}
        /\ Cardinality(f.nul) <= MaxMarks
        /\ Cardinality(f.bad) <= MaxMarks }

\* what a PDF or an image may hold, as far as this program can tell
BlobFiles == { f \in Files : f.len = 5 }

NoBytes == [len |-> 0, nul |-> {}, bad |-> {}]

Min(a, b) == IF a < b THEN a ELSE b

\* the first n bytes of f
Take(f, n) ==
    [len |-> Min(f.len, n),
     nul |-> {o \in f.nul : o < n},
     bad |-> {o \in f.bad : o < n}]

\* a first pass that takes in the whole file
bytes_read_whole_file(f) == f.len

\* file.read(&mut buffer) on a regular file: the buffer's size or the
\* whole file, whichever is smaller
bytes_read(f) == Min(BINARY_CHECK_SIZE, f.len)

\* the null test missing the buffer's last byte
buffer_contains_nul_off_by_one(f, n) == \E o \in f.nul : o < n - 1

\* buffer[..bytes_read].contains(&0)
buffer_contains_nul(f, n) == \E o \in f.nul : o < n

\* a second pass that reads no further than the first
whole_file_window_only(f) == Take(f, BINARY_CHECK_SIZE)

\* the bytes fs::read_to_string decodes: the whole file
whole_file(f) == Take(f, f.len)

(***************************************************************************)
(* Results, errors and the log.                                            *)
(***************************************************************************)
NoResult ==
    [kind |-> "None", err |-> "", msg |-> "", page |-> 0,
     detail |-> <<>>, text |-> <<>>, bytes |-> NoBytes]

OkText(t)  == [NoResult EXCEPT !.kind = "Ok", !.text = t]
OkBytes(b) == [NoResult EXCEPT !.kind = "Ok", !.bytes = b]
Err(e, m)  == [NoResult EXCEPT !.kind = "Err", !.err = e, !.msg = m]

Ev(op, arg, ok) == [op |-> op, arg |-> arg, ok |-> ok]

Count(op) == Cardinality({i \in DOMAIN log : log[i].op = op})

NotRun ==
    [ran |-> FALSE, spawned |-> FALSE, success |-> FALSE,
     stdout |-> <<>>, stderr |-> <<>>]

HelperOutcomes ==
    { [NotRun EXCEPT !.ran = TRUE] } \cup
    { [ran |-> TRUE, spawned |-> TRUE, success |-> FALSE,
       stdout |-> o, stderr |-> e] :
         o \in {<<>>, <<"h","i">>}, e \in {<<>>, <<" ","e","\n">>} } \cup
    { [ran |-> TRUE, spawned |-> TRUE, success |-> TRUE,
       stdout |-> o, stderr |-> <<>>] :
         o \in {<<>>, <<" ","\n">>, <<"h","i","\n">>, <<"h","xFF">>} }

PageTexts == {<<>>, <<"a">>, <<" ">>, <<"a","\n">>}


(***************************************************************************)
(* The OCR capability (src/src/ocr.rs).                                    *)
(***************************************************************************)
\* find_ocr_helper keeping whatever `which` printed
find_ocr_helper_keeps_stale(adj, wh) ==
    IF adj THEN "adjacent"
    ELSE IF wh \in {"hit", "stale"} THEN "path"
    ELSE "none"

\* find_ocr_helper looking on the search path only
find_ocr_helper_path_only(adj, wh) ==
    IF wh = "hit" THEN "path" ELSE "none"

\* find_ocr_helper: beside the executable first, then the search path; a
\* path `which` prints is kept only when it exists
find_ocr_helper(adj, wh) ==
    IF adj THEN "adjacent"
    ELSE IF wh = "hit" THEN "path"
    ELSE "none"

\* SystemOcrEngine::is_available
is_available(hp) == IF macos THEN hp # "none" ELSE FALSE

\* run_ocr_helper taking the helper's output whatever its exit status
run_ocr_helper_ignores_status(o) ==
    IF ~o.spawned THEN Err("ExtractionError", "Failed to run OCR helper")
    ELSE LET text == from_utf8_lossy(o.stdout)
         IN  IF trim(text) = <<>>
             THEN Err("ExtractionError", "Image contains no recognizable text")
             ELSE OkText(text)

\* run_ocr_helper without the test for blank output
run_ocr_helper_keeps_blank(o) ==
    IF ~o.spawned THEN Err("ExtractionError", "Failed to run OCR helper")
    ELSE IF ~o.success
    THEN [Err("ExtractionError", "OCR failed")
            EXCEPT !.detail = trim(from_utf8_lossy(o.stderr))]
    ELSE OkText(from_utf8_lossy(o.stdout))

\* run_ocr_helper, given what the subprocess did
run_ocr_helper(o) ==
    IF ~o.spawned THEN Err("ExtractionError", "Failed to run OCR helper")
    ELSE IF ~o.success
    THEN [Err("ExtractionError", "OCR failed")
            EXCEPT !.detail = trim(from_utf8_lossy(o.stderr))]
    ELSE LET text == from_utf8_lossy(o.stdout)
         IN  IF trim(text) = <<>>
             THEN Err("ExtractionError", "Image contains no recognizable text")
             ELSE OkText(text)

\* extract_pdf_with_ocr handing back the trimmed text
extract_pdf_with_ocr_trimmed(r) ==
    IF r.kind = "Err" THEN r
    ELSE IF trim(r.text) = <<>>
    THEN Err("ExtractionError", "PDF contains no recognizable text (OCR found nothing)")
    ELSE OkText(trim(r.text))

\* extract_pdf_with_ocr, after extract_text_from_image returned r
extract_pdf_with_ocr(r) ==
    IF r.kind = "Err" THEN r
    ELSE IF trim(r.text) = <<>>
    THEN Err("ExtractionError", "PDF contains no recognizable text (OCR found nothing)")
    ELSE r

(***************************************************************************)
(* The PDF extractor's pure steps (src/src/file.rs).                       *)
(***************************************************************************)
\* the emptiness test without the trimming
has_text_untrimmed(s) == s # <<>>

\* !all_text.trim().is_empty()
has_text(s) == trim(s) # <<>>

\* a loop body that puts the newline before every page
push_page_always_separates(acc, text) == Append(acc, "\n") \o text

\* the loop body on Ok(text)
push_page(acc, text) ==
    (IF acc # <<>> THEN Append(acc, "\n") ELSE acc) \o text

\* the message naming the page by its index
page_in_message_zero_based(n) == n

\* the page number the message of a failed page names
page_in_message(n) == n + 1

(***************************************************************************)
(* The initial states.                                                     *)
(***************************************************************************)
InitCall ==
    /\ file = NoBytes
    /\ pc = "start"
    /\ class = "None"
    /\ page_count = 0
    /\ page_num = 0
    /\ all_text = <<>>
    /\ pages = <<>>
    /\ helper_path = "none"
    /\ helper_out = NotRun
    /\ ret = NoResult
    /\ result = NoResult
    /\ log = <<>>
    /\ handles = {}

\* the clipboard before the program touches it
OldClipboard == << [text |-> <<"o","l","d">>, bytes |-> NoBytes] >>

\* read_file_contents called on its own, outside run
NoRun ==
    /\ files = <<>>
    /\ idx = 0
    /\ contents = <<>>
    /\ returned = <<>>
    /\ clipboard = OldClipboard
    /\ run_pc = "none"
    /\ run_result = NoResult

Init ==
    /\ input \in MainInputs
    /\ path = BuildPath(input)
    /\ exists \in BOOLEAN
    /\ macos \in BOOLEAN
    /\ adjacent \in BOOLEAN
    /\ which \in {"miss", "stale", "hit"}
    /\ InitCall
    /\ NoRun

(***************************************************************************)
(* read_file_contents.                                                     *)
(***************************************************************************)
\* read_file_contents without its existence check
read_file_contents_no_exists_check ==
    /\ pc = "start"
    /\ log' = Append(log, Ev("exists", 0, exists))
    /\ pc' = "dispatch"
    /\ UNCHANGED <<runVars, handles, envVars, pdfVars, file, class, helper_path, helper_out, ret, result>>

\* if !path.exists() { return Err(FileNotFound) }
read_file_contents_exists ==
    /\ pc = "start"
    /\ log' = Append(log, Ev("exists", 0, exists))
    /\ IF exists
       THEN pc' = "dispatch" /\ UNCHANGED result
       ELSE pc' = "done" /\ result' = Err("FileNotFound", "")
    /\ UNCHANGED <<runVars, handles, envVars, pdfVars, file, class, helper_path, helper_out, ret>>

\* the extension is taken once for the PDF test and once more inside
\* is_image_file when the PDF test fails
read_file_contents_dispatch ==
    /\ pc = "dispatch"
    /\ class' = classify(path)
    /\ log' = IF is_pdf_extension(extension(path))
              THEN Append(log, Ev("extension", 0, TRUE))
              ELSE log \o <<Ev("extension", 0, TRUE), Ev("extension", 0, TRUE)>>
    /\ pc' = CASE class' = "Pdf"   -> "pdf_open"
               [] class' = "Image" -> "ocr_new"
               [] OTHER            -> "text_open"
    /\ UNCHANGED <<runVars, handles, envVars, pdfVars, file, helper_path, helper_out, ret, result>>

\* the reader's result is the call's result
read_file_contents_return ==
    /\ pc = "return"
    /\ result' = ret
    /\ pc' = "done"
    /\ UNCHANGED <<runVars, handles, envVars, pdfVars, file, class, helper_path, helper_out, ret, log>>

(***************************************************************************)
(* extract_pdf_text.                                                       *)
(***************************************************************************)
extract_pdf_text_open ==
    /\ pc = "pdf_open"
    /\ \E ok \in BOOLEAN, f \in BlobFiles :
         /\ file' = f
         /\ log' = Append(log, Ev("pdf_open", 0, ok))
         /\ IF ok
            THEN pc' = "pdf_count" /\ UNCHANGED ret
            ELSE pc' = "return" /\ ret' = Err("ExtractionError", "open")
    /\ UNCHANGED <<runVars, handles, envVars, pdfVars, class, helper_path, helper_out, result>>

extract_pdf_text_page_count ==
    /\ pc = "pdf_count"
    /\ \E ok \in BOOLEAN, n \in 0..MaxPages :
         /\ log' = Append(log, Ev("page_count", 0, ok))
         /\ IF ok
            THEN /\ page_count' = n
                 /\ page_num' = 0
                 /\ all_text' = <<>>
                 /\ pc' = "pdf_loop"
                 /\ UNCHANGED ret
            ELSE /\ n = 0
                 /\ pc' = "return"
                 /\ ret' = Err("ExtractionError", "page_count")
                 /\ UNCHANGED <<page_count, page_num, all_text>>
    /\ UNCHANGED <<runVars, handles, envVars, pages, file, class, helper_path, helper_out, result>>

\* the loop asking a failed page a second time before it gives up
extract_pdf_text_page_retries ==
    /\ pc = "pdf_loop"
    /\ page_num < page_count
    /\ \E ok \in BOOLEAN, text \in PageTexts :
         /\ log' = Append(log, Ev("extract_page", page_num, ok))
         /\ IF ok
            THEN /\ all_text' = push_page(all_text, text)
                 /\ pages' = Append(pages, text)
                 /\ page_num' = page_num + 1
                 /\ UNCHANGED <<pc, ret>>
            ELSE /\ text = <<>>
                 /\ IF \E i \in DOMAIN log :
                          log[i].op = "extract_page" /\ log[i].arg = page_num
                    THEN /\ pc' = "return"
                         /\ ret' = [Err("ExtractionError", "Failed to extract page")
                                      EXCEPT !.page = page_in_message(page_num)]
                    ELSE UNCHANGED <<pc, ret>>
                 /\ UNCHANGED <<all_text, pages, page_num>>
    /\ UNCHANGED <<runVars, handles, envVars, page_count, file, class, helper_path, helper_out, result>>

\* one turn of the loop: doc.extract_text(page_num)
extract_pdf_text_page ==
    /\ pc = "pdf_loop"
    /\ page_num < page_count
    /\ \E ok \in BOOLEAN, text \in PageTexts :
         /\ log' = Append(log, Ev("extract_page", page_num, ok))
         /\ IF ok
            THEN /\ all_text' = push_page(all_text, text)
                 /\ pages' = Append(pages, text)
                 /\ page_num' = page_num + 1
                 /\ UNCHANGED <<pc, ret>>
            ELSE /\ text = <<>>
                 /\ pc' = "return"
                 /\ ret' = [Err("ExtractionError", "Failed to extract page")
                              EXCEPT !.page = page_in_message(page_num)]
                 /\ UNCHANGED <<all_text, pages, page_num>>
    /\ UNCHANGED <<runVars, handles, envVars, page_count, file, class, helper_path, helper_out, result>>

\* after the loop: return the text, or probe for OCR
\* (is_ocr_available builds an engine of its own) and fall back to it;
\* extract_pdf_with_ocr is the OCR call on a macOS build and a stub that
\* fails on any other
extract_pdf_text_finish ==
    /\ pc = "pdf_loop"
    /\ page_num = page_count
    /\ IF has_text(all_text)
       THEN /\ ret' = OkText(all_text)
            /\ pc' = "return"
            /\ UNCHANGED <<helper_path, log>>
       ELSE /\ helper_path' = find_ocr_helper(adjacent, which)
            /\ log' = Append(log, Ev("probe", 0, helper_path' # "none"))
            /\ IF is_available(helper_path')
               THEN IF macos
                    THEN pc' = "ocr_new" /\ UNCHANGED ret
                    ELSE /\ pc' = "return"
                         /\ ret' = Err("ExtractionError",
                              "PDF contains no extractable text (OCR only available on macOS)")
               ELSE /\ pc' = "return"
                    /\ ret' = Err("ExtractionError", "PDF contains no extractable text")
    /\ UNCHANGED <<runVars, handles, envVars, pdfVars, file, class, helper_out, result>>

(***************************************************************************)
(* extract_text_from_image: SystemOcrEngine::new().extract_text(path).     *)
(***************************************************************************)
\* an engine that looks at the extension again before it probes
ocr_new_engine_rechecks_extension ==
    /\ pc = "ocr_new"
    /\ helper_path' = find_ocr_helper(adjacent, which)
    /\ log' = log \o <<Ev("extension", 0, TRUE),
                       Ev("probe", 0, helper_path' # "none")>>
    /\ pc' = "ocr_extract"
    /\ UNCHANGED <<runVars, handles, envVars, pdfVars, file, class, helper_out, ret, result>>

ocr_new_engine ==
    /\ pc = "ocr_new"
    /\ helper_path' = find_ocr_helper(adjacent, which)
    /\ log' = Append(log, Ev("probe", 0, helper_path' # "none"))
    /\ pc' = "ocr_extract"
    /\ UNCHANGED <<runVars, handles, envVars, pdfVars, file, class, helper_out, ret, result>>

\* what the caller of extract_text_from_image makes of its result
ocr_caller(r) == IF class = "Pdf" THEN extract_pdf_with_ocr(r) ELSE r

ocr_extract_text ==
    /\ pc = "ocr_extract"
    /\ pc' = "return"
    /\ IF ~macos
       THEN /\ ret' = ocr_caller(Err("ExtractionError", "OCR is only supported on macOS"))
            /\ UNCHANGED <<helper_out, log, file>>
       ELSE IF helper_path = "none"
       THEN /\ ret' = ocr_caller(Err("ExtractionError", "OCR helper 'catboard-ocr' not found"))
            /\ UNCHANGED <<helper_out, log, file>>
       ELSE \E o \in HelperOutcomes, f \in BlobFiles :
              /\ helper_out' = o
              /\ file' = IF class = "Pdf" THEN file ELSE f
              /\ f = IF class = "Pdf" THEN file ELSE f
              /\ log' = Append(log, Ev("spawn_helper", 0, o.spawned))
              /\ ret' = ocr_caller(run_ocr_helper(o))
    /\ UNCHANGED <<runVars, handles, envVars, pdfVars, class, helper_path, result>>

(***************************************************************************)
(* read_text_file.                                                         *)
(***************************************************************************)
\* the open failure reported as IoError whatever its kind
open_error_all_io(kind) == Err("IoError", kind)

\* a handle going out of scope is closed
drop(hs, h) == hs \ {h}

\* the kinds of failure File::open reports, as the log records them
OpenKinds == <<"PermissionDenied", "NotFound", "Other">>

open_kind(o) ==
    IF o = "ok" THEN 0 ELSE CHOOSE k \in DOMAIN OpenKinds : OpenKinds[k] = o

\* the map_err of File::open
open_error(kind) ==
    CASE kind = "PermissionDenied" -> Err("PermissionDenied", "")
      [] kind = "NotFound"         -> Err("FileNotFound", "")
      [] OTHER                     -> Err("IoError", kind)

read_text_file_open ==
    /\ pc = "text_open"
    /\ \E o \in {"ok"} \cup {OpenKinds[k] : k \in DOMAIN OpenKinds}, f \in Files :
         /\ log' = Append(log, Ev("open", open_kind(o), o = "ok"))
         /\ IF o = "ok"
            THEN /\ file' = f
                 /\ handles' = handles \cup {"file"}
                 /\ pc' = "text_read"
                 /\ UNCHANGED ret
            ELSE /\ f = NoBytes
                 /\ pc' = "return"
                 /\ ret' = open_error(o)
                 /\ UNCHANGED <<file, handles>>
    /\ UNCHANGED <<runVars, envVars, pdfVars, class, helper_path, helper_out, result>>

\* the first pass without the release of the handle on a rejection
read_text_file_check_keeps_handle ==
    /\ pc = "text_read"
    /\ \E ok \in BOOLEAN :
         /\ log' = Append(log, Ev("read", 0, ok))
         /\ IF ~ok
            THEN pc' = "return" /\ ret' = Err("IoError", "read")
                 /\ handles' = drop(handles, "file")
            ELSE IF buffer_contains_nul(file, bytes_read(file))
            THEN pc' = "return" /\ ret' = Err("BinaryFile", "")
                 /\ UNCHANGED handles
            ELSE pc' = "text_reread" /\ UNCHANGED <<ret, handles>>
    /\ UNCHANGED <<runVars, envVars, pdfVars, file, class, helper_path, helper_out, result>>

\* the first pass: one read into an 8192-byte buffer, then the null test;
\* `file` goes out of scope, and is closed, at either return
read_text_file_check ==
    /\ pc = "text_read"
    /\ \E ok \in BOOLEAN :
         /\ log' = Append(log, Ev("read", 0, ok))
         /\ IF ~ok
            THEN pc' = "return" /\ ret' = Err("IoError", "read")
                 /\ handles' = drop(handles, "file")
            ELSE IF buffer_contains_nul(file, bytes_read(file))
            THEN pc' = "return" /\ ret' = Err("BinaryFile", "")
                 /\ handles' = drop(handles, "file")
            ELSE pc' = "text_reread" /\ UNCHANGED <<ret, handles>>
    /\ UNCHANGED <<runVars, envVars, pdfVars, file, class, helper_path, helper_out, result>>

\* the second pass: fs::read_to_string(path), which opens a handle of its
\* own and closes it before it returns, with or without an error; then
\* the function returns and `file` is closed
read_text_file_reread ==
    /\ pc = "text_reread"
    /\ pc' = "return"
    /\ \E ok \in BOOLEAN :
         /\ log' = Append(log, Ev("read_to_string", 0, ok))
         /\ ret' = IF ~ok THEN Err("IoError", "read_to_string")
                   ELSE IF whole_file(file).bad # {} THEN Err("IoError", "InvalidData")
                   ELSE OkBytes(whole_file(file))
    /\ handles' = drop(drop(handles \cup {"read_to_string"}, "read_to_string"), "file")
    /\ UNCHANGED <<runVars, envVars, pdfVars, file, class, helper_path, helper_out, result>>

(***************************************************************************)
(* run (src/src/main.rs): the inputs are read one after the other and the  *)
(* contents copied to the clipboard in one piece.                          *)
(***************************************************************************)
\* the argument "-"
Stdin == [dir |-> <<>>, stem |-> <<"-">>, base |-> "none", caps |-> {}]

\* the arguments of a run: a text file, an image and the standard input
RunInputs ==
    {Stdin} \cup
    { in \in MainInputs :
        in.stem = <<"a">> /\ in.base \in {"txt", "png"} /\ in.caps = {} }

\* what the standard input may hold
StdinFiles == BlobFiles \cup {NoBytes}

\* the String of an Ok result
Piece(r) == [text |-> r.text, bytes |-> r.bytes]

Newline == [text |-> <<"\n">>, bytes |-> NoBytes]

OkUnit == [NoResult EXCEPT !.kind = "Ok"]

\* a join that puts nothing between the contents
join_without_separator(cs) == cs

\* contents.join("\n"), as the sequence of its parts
RECURSIVE join(_)
join(cs) ==
    IF Len(cs) <= 1 THEN cs
    ELSE <<Head(cs), Newline>> \o join(Tail(cs))

\* the loop takes the next path and calls its reader
run_next_file ==
    /\ run_pc = "loop"
    /\ idx < Len(files)
    /\ input' = files[idx + 1]
    /\ path' = BuildPath(input')
    /\ \E e \in BOOLEAN :
         /\ path' = <<"-">> => ~e
         /\ exists' = e
    /\ pc' = IF path' = <<"-">> THEN "stdin" ELSE "start"
    /\ file' = NoBytes
    /\ class' = "None"
    /\ page_count' = 0 /\ page_num' = 0 /\ all_text' = <<>> /\ pages' = <<>>
    /\ helper_path' = "none"
    /\ helper_out' = NotRun
    /\ ret' = NoResult
    /\ result' = NoResult
    /\ log' = Append(log, Ev("read_begin", idx + 1, TRUE))
    /\ run_pc' = "reading"
    /\ UNCHANGED <<macos, adjacent, which, handles, files, idx, contents,
                   returned, clipboard, run_result>>

\* an earlier read_stdin has read the standard input to its end
stdin_at_end == \E i \in DOMAIN log : log[i].op = "stdin" /\ log[i].ok

\* read_stdin: everything up to the end of the input, which a second call
\* finds already reached
read_stdin ==
    /\ pc = "stdin"
    /\ \E ok \in BOOLEAN, f \in StdinFiles :
         /\ (~ok \/ stdin_at_end) => f = NoBytes
         /\ file' = f
         /\ log' = Append(log, Ev("stdin", 0, ok /\ f.bad = {}))
         /\ result' = IF ~ok THEN Err("IoError", "stdin")
                      ELSE IF f.bad # {} THEN Err("IoError", "InvalidData")
                      ELSE OkBytes(f)
    /\ pc' = "done"
    /\ UNCHANGED <<runVars, handles, envVars, pdfVars, class, helper_path,
                   helper_out, ret>>

\* a run that passes over an input it could not read
run_read_returned_skips_failure ==
    /\ run_pc = "reading"
    /\ pc = "done"
    /\ log' = Append(log, Ev("read_end", idx + 1, result.kind = "Ok"))
    /\ returned' = Append(returned, result)
    /\ contents' = IF result.kind = "Ok"
                   THEN Append(contents, Piece(result)) ELSE contents
    /\ idx' = idx + 1
    /\ run_pc' = "loop"
    /\ UNCHANGED <<run_result, files, clipboard, handles, envVars, pdfVars, file,
                   pc, class, helper_path, helper_out, ret, result>>

\* the reader returned: `?` ends the run on an error, push keeps the text
run_read_returned ==
    /\ run_pc = "reading"
    /\ pc = "done"
    /\ log' = Append(log, Ev("read_end", idx + 1, result.kind = "Ok"))
    /\ returned' = Append(returned, result)
    /\ IF result.kind = "Ok"
       THEN /\ contents' = Append(contents, Piece(result))
            /\ idx' = idx + 1
            /\ run_pc' = "loop"
            /\ UNCHANGED run_result
       ELSE /\ run_result' = result
            /\ run_pc' = "done"
            /\ UNCHANGED <<contents, idx>>
    /\ UNCHANGED <<files, clipboard, handles, envVars, pdfVars, file, pc, class,
                   helper_path, helper_out, ret, result>>

\* after the loop: NoFilesSpecified, or join and copy_to_clipboard; a
\* set_text that fails may have emptied the clipboard or left it alone
run_copy_to_clipboard ==
    /\ run_pc = "loop"
    /\ idx = Len(files)
    /\ run_pc' = "done"
    /\ IF contents = <<>>
       THEN /\ run_result' = Err("NoFilesSpecified", "")
            /\ UNCHANGED <<clipboard, log>>
       ELSE \E new_ok \in BOOLEAN, set_ok \in BOOLEAN, emptied \in BOOLEAN :
              /\ (set_ok \/ ~new_ok) => ~emptied
              /\ ~new_ok => ~set_ok
              /\ log' = IF new_ok
                        THEN log \o <<Ev("clipboard_new", 0, TRUE),
                                      Ev("set_text", 0, set_ok)>>
                        ELSE Append(log, Ev("clipboard_new", 0, FALSE))
              /\ clipboard' = IF set_ok THEN join(contents)
                              ELSE IF emptied THEN <<>>
                              ELSE clipboard
              /\ run_result' = IF set_ok THEN OkUnit
                               ELSE Err("ClipboardError", "")
    /\ UNCHANGED <<files, idx, contents, returned, handles, envVars, pdfVars, file,
                   pc, class, helper_path, helper_out, ret, result>>

(***************************************************************************)
(* What other processes may do while a call runs: install or remove the    *)
(* helper, rewrite the file.  And what a read may do on its own: return    *)
(* fewer bytes than the buffer holds room for.                             *)
(***************************************************************************)
\* catboard-ocr appears or disappears, beside the executable or on the
\* search path, after is_ocr_available looked for it and before
\* extract_text_from_image does (a change before the first look is a
\* different initial state, one after the last look is a helper that may
\* fail to start)
helper_changes ==
    /\ pc = "ocr_new"
    /\ class = "Pdf"
    /\ \E adj \in BOOLEAN, wh \in {"miss", "stale", "hit"} :
         /\ <<adj, wh>> # <<adjacent, which>>
         /\ adjacent' = adj
         /\ which' = wh
    /\ UNCHANGED <<runVars, handles, path, input, exists, macos, pdfVars, file, pc,
                   class, helper_path, helper_out, ret, result, log>>

\* the file is rewritten between the first pass and the second (a
\* rewrite before the first pass is a different file to begin with)
file_rewritten ==
    /\ pc = "text_reread"
    /\ \E f \in Files :
         /\ f # file
         /\ file' = f
    /\ UNCHANGED <<runVars, handles, envVars, pdfVars, pc, class, helper_path,
                   helper_out, ret, result, log>>

\* the sizes a read shorter than the window may have
ShortReads(f) == {n \in {1} \cup MarkOffsets : n < bytes_read(f)}

\* the first pass when file.read returns fewer bytes than are there: the
\* null test sees buffer[..bytes_read] only
read_text_file_check_short_read ==
    /\ pc = "text_read"
    /\ \E n \in ShortReads(file) :
         /\ log' = Append(log, Ev("read", n, TRUE))
         /\ IF buffer_contains_nul(file, n)
            THEN pc' = "return" /\ ret' = Err("BinaryFile", "")
                 /\ handles' = drop(handles, "file")
            ELSE pc' = "text_reread" /\ UNCHANGED <<ret, handles>>
    /\ UNCHANGED <<runVars, envVars, pdfVars, file, class, helper_path, helper_out,
                   result>>

(***************************************************************************)
(* The specifications.                                                     *)
(***************************************************************************)
Next ==
    \/ read_file_contents_exists
    \/ read_file_contents_dispatch
    \/ read_file_contents_return
    \/ extract_pdf_text_open
    \/ extract_pdf_text_page_count
    \/ extract_pdf_text_page
    \/ extract_pdf_text_finish
    \/ ocr_new_engine
    \/ ocr_extract_text
    \/ read_text_file_open
    \/ read_text_file_check
    \/ read_text_file_reread

Spec == Init /\ [][Next]_vars


\* classification alone, over every spelling of the inputs
InitClassify ==
    /\ input \in AllInputs
    /\ path = BuildPath(input)
    /\ exists = TRUE
    /\ macos = FALSE
    /\ adjacent = FALSE
    /\ which = "miss"
    /\ InitCall
    /\ NoRun

NextClassify ==
    \/ read_file_contents_exists
    \/ read_file_contents_dispatch

SpecClassify == InitClassify /\ [][NextClassify]_vars

\* one run of the program over up to MaxFiles arguments
InitRun ==
    /\ files \in UNION { [1..n -> RunInputs] : n \in 0..MaxFiles }
    /\ idx = 0
    /\ contents = <<>>
    /\ returned = <<>>
    /\ clipboard = OldClipboard
    /\ run_pc = "loop"
    /\ run_result = NoResult
    /\ input = Stdin
    /\ path = <<>>
    /\ exists = FALSE
    /\ macos \in BOOLEAN
    /\ adjacent = TRUE
    /\ which = "miss"
    /\ file = NoBytes
    /\ pc = "idle"
    /\ class = "None"
    /\ page_count = 0
    /\ page_num = 0
    /\ all_text = <<>>
    /\ pages = <<>>
    /\ helper_path = "none"
    /\ helper_out = NotRun
    /\ ret = NoResult
    /\ result = NoResult
    /\ log = <<>>
    /\ handles = {}

NextRun ==
    \/ run_next_file
    \/ read_stdin
    \/ run_read_returned
    \/ run_copy_to_clipboard
    \/ read_file_contents_exists
    \/ read_file_contents_dispatch
    \/ read_file_contents_return
    \/ ocr_new_engine
    \/ ocr_extract_text
    \/ read_text_file_open
    \/ read_text_file_check
    \/ read_text_file_reread

SpecRun == InitRun /\ [][NextRun]_vars

\* one read_file_contents call with other processes at work and with reads
\* that may come back short
NextRace ==
    \/ read_file_contents_exists
    \/ read_file_contents_dispatch
    \/ read_file_contents_return
    \/ extract_pdf_text_open
    \/ extract_pdf_text_page_count
    \/ extract_pdf_text_page
    \/ extract_pdf_text_finish
    \/ ocr_new_engine
    \/ ocr_extract_text
    \/ read_text_file_open
    \/ read_text_file_check
    \/ read_text_file_reread
    \/ helper_changes
    \/ file_rewritten
    \/ read_text_file_check_short_read

SpecRace == Init /\ [][NextRace]_vars

(***************************************************************************)
(* What the properties speak of.                                           *)
(***************************************************************************)
Done == pc = "done"

Logged(op, ok) == \E i \in DOMAIN log : log[i].op = op /\ log[i].ok = ok

OpsUsed == {log[i].op : i \in DOMAIN log} \ {"exists", "extension"}

PdfOps  == {"pdf_open", "page_count", "extract_page"}
OcrOps  == {"probe", "spawn_helper"}
TextOps == {"open", "read", "read_to_string"}

NoFault == \A i \in DOMAIN log : log[i].ok

\* the class the extension the path was built with calls for
HasExtension(in) == in.base # "none" /\ in.stem # <<>>

ExpectedClass(in) ==
    IF HasExtension(in) /\ in.base = "pdf" THEN "Pdf"
    ELSE IF HasExtension(in) /\ in.base \in
              {"png", "jpg", "jpeg", "tiff", "tif", "gif", "bmp", "webp",
               "heic", "heif"}
    THEN "Image"
    ELSE "Text"

(***************************************************************************)
(* C1: a file read as text whose first 8192 bytes (or all of its bytes,    *)
(* when it is shorter) hold a null byte is refused with BinaryFile: no     *)
(* text is returned and the second pass never runs, whatever follows the   *)
(* null byte.                                                              *)
(***************************************************************************)
C1_NullInWindowIsBinary ==
    (Done /\ class = "Text" /\ Logged("open", TRUE) /\ Logged("read", TRUE)
          /\ \E o \in file.nul : o < 8192)
    => /\ result.kind = "Err"
       /\ result.err = "BinaryFile"
       /\ result.bytes = NoBytes
       /\ Count("read_to_string") = 0

C1_Witness ==
    /\ Done /\ class = "Text"
    /\ file.len = 10000 /\ file.nul = {8191} /\ file.bad = {}
    /\ result.err = "BinaryFile"

(***************************************************************************)
(* C2: a readable file read as text, valid UTF-8 and free of null bytes,   *)
(* comes back whole: the empty string for an empty file, all the bytes     *)
(* for a file longer than the 8192-byte window.                            *)
(***************************************************************************)
C2_CleanTextReturnedWhole ==
    (Done /\ class = "Text" /\ Logged("open", TRUE) /\ NoFault
          /\ file.nul = {} /\ file.bad = {})
    => result = OkBytes(file)

C2_Witness ==
    /\ Done /\ class = "Text" /\ NoFault
    /\ file = [len |-> 10000, nul |-> {}, bad |-> {}]
    /\ result.kind = "Ok" /\ result.bytes.len = 10000

(***************************************************************************)
(* C3: the branch taken depends on the extension alone and is one of       *)
(* three: pdf in any letter case is Pdf, one of the ten image extensions   *)
(* in any letter case is Image, anything else (no extension, a dot-file)   *)
(* is Text.                                                                *)
(***************************************************************************)
C3_ClassifiedByExtension ==
    class # "None"
    => /\ class \in {"Pdf", "Image", "Text"}
       /\ class = ExpectedClass(input)

C3_Witness ==
    /\ class = "Image"
    /\ input.base = "heif" /\ input.caps = {1, 3}
    /\ input.stem = <<"a",".","b">>

(***************************************************************************)
(* C4: a path that does not exist ends in FileNotFound with nothing done   *)
(* but the existence check: no extension looked at, no reader started.     *)
(***************************************************************************)
C4_MissingPathFailsFirst ==
    ~exists
    => /\ class = "None"
       /\ \A i \in DOMAIN log : log[i].op = "exists"
       /\ pc \in {"start", "done"}
       /\ Done => result = Err("FileNotFound", "")

C4_Witness ==
    /\ ~exists /\ Done
    /\ input.base = "pdf" /\ HasExtension(input)
    /\ result.err = "FileNotFound"

(***************************************************************************)
(* C5: for an existing path exactly the reader its class calls for runs,   *)
(* and its result is returned as it is; a Pdf or an Image never reaches    *)
(* the null test and never fails with BinaryFile.                          *)
(***************************************************************************)
C5_OneReaderByClass ==
    (Done /\ exists)
    => /\ result = ret
       /\ CASE ExpectedClass(input) = "Pdf" ->
                 /\ "pdf_open" \in OpsUsed
                 /\ OpsUsed \subseteq PdfOps \cup OcrOps
                 /\ result.err # "BinaryFile"
            [] ExpectedClass(input) = "Image" ->
                 /\ "probe" \in OpsUsed
                 /\ OpsUsed \subseteq OcrOps
                 /\ result.err # "BinaryFile"
            [] OTHER ->
                 /\ "open" \in OpsUsed
                 /\ OpsUsed \subseteq TextOps

C5_Witness ==
    /\ Done /\ exists
    /\ input.base = "png" /\ file.nul # {}
    /\ result.kind = "Ok"


(***************************************************************************)
(* Joining page texts.                                                     *)
(***************************************************************************)
RECURSIVE Join(_)
Join(ps) ==
    IF ps = <<>> THEN <<>>
    ELSE IF Len(ps) = 1 THEN ps[1]
    ELSE ps[1] \o <<"\n">> \o Join(Tail(ps))

NonEmptyOnly(ps) == SelectSeq(ps, LAMBDA t : t # <<>>)

RECURSIVE DropLeadingEmpty(_)
DropLeadingEmpty(ps) ==
    IF ps # <<>> /\ Head(ps) = <<>> THEN DropLeadingEmpty(Tail(ps)) ELSE ps

\* every page of the document was extracted
AllPagesRead ==
    class = "Pdf" /\ Logged("page_count", TRUE) /\ Len(pages) = page_count

\* a helper the probe resolves: beside the executable, or on the search path
HelperResolvable == adjacent \/ which = "hit"

(***************************************************************************)
(* C6, as claimed: with every page extracted, the concatenation is the     *)
(* non-empty page texts joined by single newlines, so it has no leading    *)
(* newline, no trailing newline and no doubled separator, wherever the     *)
(* empty pages are.                                                        *)
(***************************************************************************)
C6_Original ==
    AllPagesRead => all_text = Join(NonEmptyOnly(pages))

(***************************************************************************)
(* C6, amended: with every page extracted, the concatenation is the page   *)
(* texts in page order from the first non-empty page on, every later page  *)
(* (empty or not) preceded by one newline: empty pages at the start leave  *)
(* no newline, an empty page after text leaves a trailing or a doubled     *)
(* newline.                                                                *)
(***************************************************************************)
C6_SeparatorOnceTextBegan ==
    AllPagesRead => all_text = Join(DropLeadingEmpty(pages))

C6_Witness ==
    /\ AllPagesRead /\ Done
    /\ pages = << <<>>, <<"a">>, <<>> >>
    /\ all_text = <<"a", "\n">>
    /\ result = OkText(<<"a", "\n">>)

(***************************************************************************)
(* C7: when the text of page index i cannot be extracted the call stops    *)
(* there with an ExtractionError naming page i + 1: no later page is       *)
(* asked for, the text of the earlier pages is not returned, and OCR is    *)
(* neither probed for nor run.                                             *)
(***************************************************************************)
C7_PageFailureAborts ==
    \A i \in DOMAIN log :
        (log[i].op = "extract_page" /\ ~log[i].ok)
        => /\ i = Len(log)
           /\ pc \in {"return", "done"}
           /\ ret.kind = "Err" /\ ret.err = "ExtractionError"
           /\ ret.page = log[i].arg + 1
           /\ ret.text = <<>>
           /\ Done => result = ret
           /\ \A j \in DOMAIN log :
                /\ log[j].op = "extract_page" /\ j # i => log[j].arg < log[i].arg
                /\ log[j].op \notin OcrOps

C7_Witness ==
    /\ Done
    /\ log[Len(log)] = Ev("extract_page", 1, FALSE)
    /\ pages = << <<"a">> >>
    /\ page_count = 3
    /\ result.kind = "Err" /\ result.page = 2

(***************************************************************************)
(* C8: a PDF whose pages give no text (nothing but whitespace), with OCR   *)
(* available, is handed to the helper once, as a whole; the text the       *)
(* helper prints is returned when it is not blank, and a blank output or   *)
(* a failed helper is an ExtractionError.                                  *)
(***************************************************************************)
C8_EmptyPdfGoesToOcr ==
    (Done /\ AllPagesRead /\ trim(all_text) = <<>> /\ macos /\ HelperResolvable)
    => /\ Count("spawn_helper") = 1
       /\ Count("extract_page") = page_count
       /\ LET text == from_utf8_lossy(helper_out.stdout)
          IN  IF helper_out.spawned /\ helper_out.success /\ trim(text) # <<>>
              THEN result = OkText(text)
              ELSE result.kind = "Err" /\ result.err = "ExtractionError"

C8_Witness ==
    /\ Done /\ AllPagesRead /\ macos /\ HelperResolvable
    /\ pages = << <<" ">>, <<>> >>
    /\ helper_out.success
    /\ result = OkText(<<"h", "i", "\n">>)

(***************************************************************************)
(* C9: a PDF whose pages give no text, with OCR unavailable (no helper     *)
(* to be found, or a build that is not for macOS), fails with an           *)
(* ExtractionError and no helper is run.                                   *)
(***************************************************************************)
C9_EmptyPdfWithoutOcrFails ==
    (Done /\ AllPagesRead /\ trim(all_text) = <<>> /\ ~(macos /\ HelperResolvable))
    => /\ result.kind = "Err" /\ result.err = "ExtractionError"
       /\ Count("spawn_helper") = 0

C9_Witness ==
    /\ Done /\ AllPagesRead /\ page_count = 2 /\ trim(all_text) = <<>>
    /\ ~macos /\ adjacent
    /\ result = Err("ExtractionError", "PDF contains no extractable text")
    /\ Count("spawn_helper") = 0

(***************************************************************************)
(* C10, as claimed: the engine is available exactly when the probe         *)
(* resolved a helper (beside the executable, else on the search path),     *)
(* and with no helper resolved extract_text is an ExtractionError that     *)
(* runs nothing.                                                           *)
(***************************************************************************)
ProbeResolved ==
    helper_path = IF adjacent THEN "adjacent"
                  ELSE IF which = "hit" THEN "path" ELSE "none"

ExtractTextReturned == class = "Image" /\ pc \in {"return", "done"}

C10_Original ==
    Count("probe") > 0
    => /\ ProbeResolved
       /\ is_available(helper_path) <=> HelperResolvable
       /\ (ExtractTextReturned /\ ~HelperResolvable)
          => /\ ret.kind = "Err" /\ ret.err = "ExtractionError"
             /\ Count("spawn_helper") = 0

(***************************************************************************)
(* C10, amended: on a macOS build the engine is available exactly when     *)
(* the probe resolved a helper (beside the executable, else on the search  *)
(* path); on any other build it is never available, helper or not.  When   *)
(* it is unavailable extract_text is an ExtractionError that runs nothing. *)
(***************************************************************************)
C10_AvailableOnMacosWithHelper ==
    Count("probe") > 0
    => /\ ProbeResolved
       /\ is_available(helper_path) <=> (macos /\ HelperResolvable)
       /\ (ExtractTextReturned /\ ~(macos /\ HelperResolvable))
          => /\ ret.kind = "Err" /\ ret.err = "ExtractionError"
             /\ Count("spawn_helper") = 0

C10_Witness ==
    /\ Done /\ class = "Image"
    /\ ~macos /\ adjacent /\ helper_path = "adjacent"
    /\ ~is_available(helper_path)
    /\ result = Err("ExtractionError", "OCR is only supported on macOS")
    /\ Count("spawn_helper") = 0

\* the helper subprocess ran and the OCR call has returned
HelperReturned == helper_out.ran /\ pc \in {"return", "done"}

\* s has no whitespace at either end
NoOuterWhitespace(s) ==
    s = <<>> \/ (~is_whitespace(s[1]) /\ ~is_whitespace(s[Len(s)]))

(***************************************************************************)
(* C11: when the helper subprocess exits with a non-zero status the OCR    *)
(* call is an ExtractionError "OCR failed: ..." whose detail is the        *)
(* helper's standard error without its surrounding whitespace; whatever    *)
(* the helper wrote to standard output is not returned.                    *)
(***************************************************************************)
C11_HelperFailureReportsStderr ==
    (HelperReturned /\ helper_out.spawned /\ ~helper_out.success)
    => /\ ret.kind = "Err" /\ ret.err = "ExtractionError"
       /\ ret.msg = "OCR failed"
       /\ ret.detail = trim(from_utf8_lossy(helper_out.stderr))
       /\ NoOuterWhitespace(ret.detail)
       /\ ret.text = <<>>
       /\ Done => result = ret

C11_Witness ==
    /\ Done /\ class = "Image"
    /\ helper_out.spawned /\ ~helper_out.success
    /\ helper_out.stdout = <<"h","i">>
    /\ helper_out.stderr = <<" ","e","\n">>
    /\ result.kind = "Err" /\ result.msg = "OCR failed"
    /\ result.detail = <<"e">>
    /\ result.text = <<>>

(***************************************************************************)
(* C12: an OCR call never succeeds with text that is empty or only         *)
(* whitespace: a helper that exits with success and blank output makes     *)
(* the call an ExtractionError, for an image read directly and for a PDF   *)
(* that fell back to OCR.                                                  *)
(***************************************************************************)
C12_OcrNeverReturnsBlank ==
    HelperReturned
    => /\ ret.kind = "Ok" => trim(ret.text) # <<>>
       /\ (helper_out.success /\ trim(from_utf8_lossy(helper_out.stdout)) = <<>>)
          => (ret.kind = "Err" /\ ret.err = "ExtractionError")
       /\ Done => result = ret

C12_Witness ==
    /\ Done /\ class = "Image"
    /\ helper_out.success /\ helper_out.stdout = <<" ","\n">>
    /\ result = Err("ExtractionError", "Image contains no recognizable text")

\* the same blank output on the PDF route
C12_WitnessPdf ==
    /\ Done /\ class = "Pdf"
    /\ helper_out.success /\ helper_out.stdout = <<" ","\n">>
    /\ result.kind = "Err" /\ result.err = "ExtractionError"

\* the operations of the readers that can fail
ReaderOps == PdfOps \cup TextOps \cup {"spawn_helper"}

(***************************************************************************)
(* C14: nothing is tried again within one read_file_contents call: the     *)
(* helper subprocess is started at most once, every page of a PDF is       *)
(* asked for its text at most once, every other reader operation runs at   *)
(* most once, and the first operation of the reader that fails is its      *)
(* last: the reader returns an error and that error is the call's result.  *)
(***************************************************************************)
C14_NothingRetried ==
    /\ Count("spawn_helper") <= 1
    /\ \A i, j \in DOMAIN log :
         (log[i].op = "extract_page" /\ log[j].op = "extract_page"
            /\ log[i].arg = log[j].arg) => i = j
    /\ \A op \in (PdfOps \cup TextOps) \ {"extract_page"} : Count(op) <= 1
    /\ \A i \in DOMAIN log :
         (log[i].op \in ReaderOps /\ ~log[i].ok)
         => /\ i = Len(log)
            /\ pc \in {"return", "done"}
            /\ ret.kind = "Err"
            /\ Done => result = ret
    /\ (HelperReturned /\ ~helper_out.success)
       => /\ log[Len(log)].op = "spawn_helper"
          /\ ret.kind = "Err"
          /\ Done => result = ret

\* a PDF whose second page fails after its first was read
C14_Witness ==
    /\ Done /\ class = "Pdf"
    /\ page_count = 3 /\ page_num = 1
    /\ Count("extract_page") = 2
    /\ ~log[Len(log)].ok
    /\ result.kind = "Err" /\ result.page = 2

\* a helper that exits with failure on the PDF fallback, started once
C14_WitnessHelper ==
    /\ Done /\ class = "Pdf"
    /\ helper_out.spawned /\ ~helper_out.success
    /\ Count("spawn_helper") = 1 /\ Count("probe") = 2
    /\ result.msg = "OCR failed"

(***************************************************************************)
(* C17: when read_text_file cannot open the file the error follows the     *)
(* kind of the failure: permission denied gives PermissionDenied, not      *)
(* found gives FileNotFound (the case of a file that passed the existence  *)
(* check and was gone at the open), any other kind gives the generic       *)
(* IoError.  Nothing is read, and the result is never BinaryFile nor text. *)
(***************************************************************************)
C17_OpenFailureByKind ==
    \A i \in DOMAIN log :
      (log[i].op = "open" /\ ~log[i].ok)
      => /\ i = Len(log)
         /\ pc \in {"return", "done"}
         /\ Logged("exists", TRUE)
         /\ ret.kind = "Err"
         /\ ret.err = CASE OpenKinds[log[i].arg] = "PermissionDenied" -> "PermissionDenied"
                        [] OpenKinds[log[i].arg] = "NotFound" -> "FileNotFound"
                        [] OpenKinds[log[i].arg] = "Other" -> "IoError"
         /\ ret.bytes = NoBytes /\ ret.text = <<>>
         /\ Count("read") = 0 /\ Count("read_to_string") = 0
         /\ Done => result = ret

\* the file was there at the existence check and gone at the open
C17_Witness ==
    /\ Done /\ class = "Text" /\ exists
    /\ Logged("exists", TRUE)
    /\ log[Len(log)] = Ev("open", 2, FALSE)
    /\ result = Err("FileNotFound", "")

C17_WitnessOther ==
    /\ Done /\ class = "Text"
    /\ log[Len(log)] = Ev("open", 3, FALSE)
    /\ result.err = "IoError"

\* s holds nothing but whitespace
Blank(s) == \A i \in DOMAIN s : is_whitespace(s[i])

(***************************************************************************)
(* C18: the emptiness test of extract_pdf_text looks past whitespace.      *)
(* OCR is probed exactly when every page was extracted and the             *)
(* concatenated text is blank (empty or whitespace only), and the helper   *)
(* runs only then, whenever the engine is available.  When the text is     *)
(* not blank it is returned as it was concatenated, untrimmed, and the     *)
(* helper is neither probed nor run.                                       *)
(***************************************************************************)
C18_BlankPdfTextGoesToOcr ==
    class = "Pdf"
    => /\ Count("probe") > 0 => (AllPagesRead /\ Blank(all_text))
       /\ Count("spawn_helper") > 0 => Count("probe") > 0
       /\ pc \in {"return", "done"}
          => /\ (AllPagesRead /\ Blank(all_text)) => Count("probe") > 0
             /\ (AllPagesRead /\ Blank(all_text) /\ macos /\ HelperResolvable)
                => Count("spawn_helper") = 1
             /\ (AllPagesRead /\ ~Blank(all_text))
                => /\ ret = OkText(all_text)
                   /\ Count("probe") = 0 /\ Count("spawn_helper") = 0
                   /\ Done => result = ret

\* text with whitespace at both ends comes back as it is
C18_Witness ==
    /\ Done /\ class = "Pdf"
    /\ pages = << <<" ">>, <<"a","\n">> >>
    /\ result = OkText(<<" ","\n","a","\n">>)
    /\ Count("probe") = 0

\* pages of whitespace alone reach the helper
C18_WitnessBlank ==
    /\ Done /\ class = "Pdf"
    /\ pages = << <<" ">>, <<" ">> >>
    /\ all_text = <<" ","\n"," ">>
    /\ Count("probe") = 2 /\ Count("spawn_helper") = 1

(***************************************************************************)
(* C19: for a file read as text that opens and reads without fault, the    *)
(* result is BinaryFile exactly when a null byte lies in the first 8192    *)
(* bytes.  With no null byte there, a valid UTF-8 file is returned whole,  *)
(* null bytes at offset 8192 and beyond included, and a file that is not   *)
(* valid UTF-8 is the generic IoError, not BinaryFile.                     *)
(***************************************************************************)
C19_BinaryIffNullInWindow ==
    (Done /\ class = "Text" /\ Logged("open", TRUE) /\ NoFault)
    => LET inWindow == \E o \in file.nul : o < 8192
       IN  /\ (result.kind = "Err" /\ result.err = "BinaryFile") <=> inWindow
           /\ (~inWindow /\ file.bad = {}) => result = OkBytes(file)
           /\ (~inWindow /\ file.bad # {})
              => /\ result.kind = "Err" /\ result.err = "IoError"
                 /\ result.bytes = NoBytes

\* a null byte at offset 8192, the first one past the window
C19_Witness ==
    /\ Done /\ class = "Text" /\ NoFault
    /\ file = [len |-> 10000, nul |-> {8192}, bad |-> {}]
    /\ result.kind = "Ok" /\ result.bytes.nul = {8192}
    /\ result.bytes.len = 10000

\* invalid UTF-8 and no null byte
C19_WitnessInvalid ==
    /\ Done /\ class = "Text" /\ NoFault
    /\ file.nul = {} /\ file.bad # {}
    /\ result = Err("IoError", "InvalidData")

\* every look at the extension comes before every operation of a reader
ExtensionBeforeReaders ==
    \A i, j \in DOMAIN log :
      (log[i].op = "extension" /\ log[j].op \in ReaderOps \cup {"probe"})
      => i < j

(***************************************************************************)
(* C16, as claimed: within one read_file_contents call the extension of    *)
(* the path is looked at once, and never after a reader has started.       *)
(***************************************************************************)
C16_Original ==
    class # "None"
    => /\ class = ExpectedClass(input)
       /\ Count("extension") = 1
       /\ ExtensionBeforeReaders

(***************************************************************************)
(* C16, amended: within one read_file_contents call the reader is chosen   *)
(* once, from the extension alone, and the extension is never looked at    *)
(* after a reader has started.  The extension is taken once when it is     *)
(* pdf and twice otherwise: read_file_contents takes it for the PDF test   *)
(* and is_image_file takes it again from the same path.                    *)
(***************************************************************************)
C16_ClassifiedBeforeReading ==
    /\ class = "None" => Count("extension") = 0
    /\ class # "None"
       => /\ class = ExpectedClass(input)
          /\ Count("extension") = IF class = "Pdf" THEN 1 ELSE 2
          /\ ExtensionBeforeReaders

\* an image: the extension taken twice, then the helper run
C16_Witness ==
    /\ Done /\ class = "Image"
    /\ Count("extension") = 2
    /\ Count("spawn_helper") = 1
    /\ log[2].op = "extension" /\ log[3].op = "extension"

(***************************************************************************)
(* C15: once read_text_file has returned, no file handle it opened is      *)
(* still open, whichever way it returned: with the text, with BinaryFile,  *)
(* or with an error of the open, the first read or the second pass.  A     *)
(* handle is open only between the open and the return.                    *)
(***************************************************************************)
C15_HandlesReleasedOnReturn ==
    /\ pc \in {"return", "done"} => handles = {}
    /\ handles # {} => (class = "Text" /\ pc \in {"text_read", "text_reread"})
    /\ pc \in {"text_read", "text_reread"} => handles = {"file"}

\* the rejection of a binary file, after the handle was opened
C15_Witness ==
    /\ pc = "return" /\ class = "Text"
    /\ Logged("open", TRUE)
    /\ ret.err = "BinaryFile"
    /\ handles = {}

\* the other ways out: the text, a failed first read, a failed second pass
C15_WitnessOtherExits ==
    /\ pc = "return" /\ class = "Text" /\ Logged("open", TRUE) /\ handles = {}
    /\ \/ ret.kind = "Ok"
       \/ Logged("read", FALSE)
       \/ Logged("read_to_string", FALSE)
       \/ ret.msg = "InvalidData"

\* the calls of the readers made by run and their returns, in order
IsRunEvent(e) == e.op \in {"read_begin", "read_end"}

RunEvents == SelectSeq(log, IsRunEvent)

ClipboardOps == {"clipboard_new", "set_text"}

\* the last call or return of a reader before position i of the log
LastRunEventBefore(i) ==
    LET before == {j \in 1..(i - 1) : IsRunEvent(log[j])}
    IN  IF before = {} THEN 0
        ELSE CHOOSE j \in before : \A k \in before : k <= j

\* the reads come one by one in the order of the arguments: call 1, its
\* return, call 2, its return, ...; everything a reader does lies between
\* its call and its return
OneAtATimeInOrder ==
    /\ \A k \in DOMAIN RunEvents :
         /\ RunEvents[k].op = IF k % 2 = 1 THEN "read_begin" ELSE "read_end"
         /\ RunEvents[k].arg = (k + 1) \div 2
    /\ \A i \in DOMAIN log :
         (~IsRunEvent(log[i]) /\ log[i].op \notin ClipboardOps)
         => /\ LastRunEventBefore(i) # 0
            /\ log[LastRunEventBefore(i)].op = "read_begin"
    /\ run_pc = "reading" => input = files[idx + 1]

(***************************************************************************)
(* C13: one run reads its inputs one at a time, in the order of the        *)
(* arguments, each read returning before the next begins.  When the run    *)
(* succeeds the clipboard was written once, after the last read returned,  *)
(* and holds what the reads returned, in that order, with one newline      *)
(* between two consecutive contents and nothing else added.                *)
(***************************************************************************)
C13_ReadInOrderThenOneWrite ==
    /\ OneAtATimeInOrder
    /\ Count("set_text") <= 1
    /\ \A i \in DOMAIN log :
         log[i].op \in ClipboardOps => Count("read_end") = Len(files)
    /\ (run_pc = "done" /\ run_result.kind = "Ok")
       => /\ Len(returned) = Len(files)
          /\ \A k \in DOMAIN returned : returned[k].kind = "Ok"
          /\ Len(clipboard) = 2 * Len(files) - 1
          /\ \A k \in 1..Len(files) : clipboard[2 * k - 1] = Piece(returned[k])
          /\ \A k \in 1..(Len(files) - 1) : clipboard[2 * k] = Newline
          /\ log[Len(log)] = Ev("set_text", 0, TRUE)
          /\ Count("set_text") = 1

\* two inputs with different contents, read and copied
C13_Witness ==
    /\ run_pc = "done" /\ run_result.kind = "Ok"
    /\ Len(files) = 2
    /\ files[1].base = "txt" /\ files[2] = Stdin
    /\ returned[1].bytes.len = 10000 /\ returned[2].bytes.len = 5
    /\ clipboard = <<Piece(returned[1]), Newline, Piece(returned[2])>>
    /\ Count("set_text") = 1

(***************************************************************************)
(* C20: when the read of an input fails the run ends there: it returns     *)
(* that error, which is the first failure in the order of the arguments,   *)
(* no later input is read, and the clipboard is not touched, so that it    *)
(* holds after the run what it held before, even when earlier inputs were  *)
(* read with success.                                                      *)
(***************************************************************************)
C20_FailedReadLeavesClipboard ==
    \A k \in DOMAIN returned :
      returned[k].kind = "Err"
      => /\ k = Len(returned)
         /\ \A j \in 1..(k - 1) : returned[j].kind = "Ok"
         /\ run_pc = "done"
         /\ run_result = returned[k]
         /\ Count("read_begin") = k
         /\ log[Len(log)] = Ev("read_end", k, FALSE)
         /\ Len(contents) = k - 1
         /\ clipboard = OldClipboard
         /\ \A op \in ClipboardOps : Count(op) = 0

\* the first input read, the second one binary, a third never reached
C20_Witness ==
    /\ run_pc = "done"
    /\ Len(files) = 2 /\ Len(returned) = 2
    /\ returned[1].kind = "Ok"
    /\ run_result = Err("BinaryFile", "")
    /\ clipboard = OldClipboard

\* is_ocr_available, the first probe of the PDF fallback, found the engine
\* available
ReportedAvailable ==
    /\ class = "Pdf"
    /\ macos
    /\ \E i \in DOMAIN log :
         /\ log[i].op = "probe" /\ log[i].ok
         /\ \A j \in 1..(i - 1) : log[j].op # "probe"

HelperNotFound ==
    Err("ExtractionError", "OCR helper 'catboard-ocr' not found")

(***************************************************************************)
(* C21: in the PDF fallback, once is_ocr_available has reported the helper *)
(* available, the OCR extraction of the same call runs the helper and      *)
(* does not fail with "helper not found", whatever happens to the helper   *)
(* between the two probes.                                                 *)
(***************************************************************************)
C21_AvailableThenHelperRuns ==
    (ReportedAvailable /\ pc \in {"return", "done"})
    => /\ Count("probe") = 2
       /\ Count("spawn_helper") = 1
       /\ ret # HelperNotFound

\* the state that refutes it: available at the first probe, gone at the
\* second, nothing run
C21_HelperGoneBetweenProbes ==
    /\ Done /\ ReportedAvailable
    /\ Count("probe") = 2 /\ ~log[Len(log)].ok
    /\ Count("spawn_helper") = 0
    /\ result = HelperNotFound

(***************************************************************************)
(* C22: the text a successful read_text_file returns has no null byte in   *)
(* its first 8192 bytes, also when the first read came back short and      *)
(* when the file was rewritten between the two passes.                     *)
(***************************************************************************)
C22_ReturnedTextPassedTheCheck ==
    (class = "Text" /\ pc \in {"return", "done"} /\ ret.kind = "Ok")
    => \A o \in ret.bytes.nul : o >= 8192

\* a short first read that stopped before the null byte
C22_ShortReadMissesNull ==
    /\ Done /\ class = "Text"
    /\ \E i \in DOMAIN log : log[i] = Ev("read", 1, TRUE)
    /\ result.kind = "Ok"
    /\ result.bytes = [len |-> 5, nul |-> {3}, bad |-> {}]

\* a file rewritten after a full first read found it clean
C22_RewrittenBetweenPasses ==
    /\ Done /\ class = "Text"
    /\ \E i \in DOMAIN log : log[i] = Ev("read", 0, TRUE)
    /\ result.kind = "Ok"
    /\ result.bytes.nul = {3}

====
